---- MODULE Spec2Model ----
(***************************************************************************)
(* Process-graph model of app.py (cabf05/processos): the helpers that      *)
(* mutate the node list and the edge list of the current process, the      *)
(* Mermaid projection, and the Streamlit handlers that drive them.         *)
(*                                                                         *)
(* Text is modelled as a sequence of tokens: a token is a word (a run of   *)
(* non-whitespace characters), a blank " " or a newline "\n".  Python's    *)
(* None is the empty option <<>>, a present value v is <<v>>.  Positions   *)
(* are 1-based; position 0 stands for Python's None index.                 *)
(*                                                                         *)
(* Not modelled: the process keys "id" and "name" and the chat log         *)
(* st.session_state.conversation: no helper or handler ever reads them to  *)
(* decide what to do with nodes or edges.                                  *)
(***************************************************************************)
EXTENDS Naturals, Sequences, FiniteSets, TLC

VARIABLES
    process,          \* st.session_state.process
    uuid,             \* number of uuid4() values drawn so far
    last_added_node,  \* st.session_state.last_added_node (an option)
    editing_node,     \* st.session_state._editing_node (an option)
    last,             \* observation of the operation that acted last
    steps             \* number of operations so far

vars == <<process, uuid, last_added_node, editing_node, last, steps>>

\* ------------------------------------------------------------------ bounds
\* The number of helper calls in a run of direct helper calls.
MaxCalls == 3
\* The number of button presses and uploads in a run of the application.
MaxSteps == 4

\* ------------------------------------------------------------------ values
None == <<>>
Some(v) == <<v>>

NL == "\n"
Blank == " "
Whitespace == {Blank, NL}

Node(id, label, type) == [id |-> id, label |-> label, type |-> type]
Edge(from, to, label) == [from |-> from, to |-> to, label |-> label]

\* A parsed JSON value, as far as the program looks at it: a mapping with its
\* keys and its "nodes" and "edges" values, a list with its items, or a number.
JDict(keys, nodes, edges) ==
    [tag |-> "dict", keys |-> keys, items |-> <<>>, nodes |-> nodes, edges |-> edges]
JList(items) ==
    [tag |-> "list", keys |-> {}, items |-> items, nodes |-> <<>>, edges |-> <<>>]
JNum ==
    [tag |-> "num", keys |-> {}, items |-> <<>>, nodes |-> <<>>, edges |-> <<>>]

ProcessKeys == {"id", "name", "nodes", "edges"}

\* ------------------------------------------------------------------ text
RECURSIVE LStrip(_)
LStrip(s) == IF s # <<>> /\ Head(s) \in Whitespace THEN LStrip(Tail(s)) ELSE s

RECURSIVE RStrip(_)
RStrip(s) ==
    IF s # <<>> /\ s[Len(s)] \in Whitespace THEN RStrip(SubSeq(s, 1, Len(s) - 1)) ELSE s

\* str.strip()
Strip(s) == RStrip(LStrip(s))

\* str.replace("\n", " ")
ReplaceNewlines(s) == [i \in 1..Len(s) |-> IF s[i] = NL THEN Blank ELSE s[i]]

\* a or b, on strings
OrElse(a, b) == IF a # <<>> THEN a ELSE b

\* "\n".join(lines)
RECURSIVE Join(_)
Join(lines) ==
    IF lines = <<>> THEN <<>>
    ELSE IF Len(lines) = 1 THEN lines[1]
    ELSE lines[1] \o <<NL>> \o Join(Tail(lines))

\* ------------------------------------------------------------------ helpers
\* The n-th identifier drawn: uuid4 does not repeat.
generate_id(prefix, n) == prefix \o "_" \o ToString(n)

init_process ==
    JDict(ProcessKeys, <<Node("start", <<"Início">>, "start")>>, <<>>)

NodeIds(p) == {p.nodes[i].id : i \in 1..Len(p.nodes)}

get_node_index(p, node_id) ==
    IF \E i \in 1..Len(p.nodes) : p.nodes[i].id = node_id
    THEN CHOOSE i \in 1..Len(p.nodes) :
            /\ p.nodes[i].id = node_id
            /\ \A j \in 1..(i - 1) : p.nodes[j].id # node_id
    ELSE 0

find_node(p, node_id) ==
    LET i == get_node_index(p, node_id)
    IN  IF i = 0 THEN None ELSE Some(p.nodes[i])

\* The operations return the process they leave, the value they return, what
\* they raise, the message shown (st.success, st.warning, st.error, st.info)
\* and the number of identifiers they drew. An operation that draws
\* identifiers takes the number drawn before it as its last parameter.
Outcome(p, ret) ==
    [proc |-> p, ret |-> ret, raised |-> "none", msg |-> "", drawn |-> 0]

Drew(o, k) == [o EXCEPT !.drawn = k]

add_node(p, label, ntype, n) ==
    LET nid == generate_id("n", n + 1)
    IN  Drew(Outcome([p EXCEPT !.nodes = Append(@, Node(nid, label, ntype))], nid), 1)

add_edge(p, from_id, to_id, label) ==
    Outcome([p EXCEPT !.edges = Append(@, Edge(from_id, to_id, label))], "")

update_node_label(p, node_id, new_label) ==
    LET i == get_node_index(p, node_id)
    IN  IF i = 0 THEN Outcome(p, "")
        ELSE Outcome([p EXCEPT !.nodes[i].label = new_label], "")

\* A truncation that forgets the edges arriving at a removed node.
delete_nodes_after_from_only(p, node_id) ==
    LET idx == get_node_index(p, node_id)
        keep == SubSeq(p.nodes, 1, idx)
        removed_ids == {p.nodes[i].id : i \in (idx + 1)..Len(p.nodes)}
        NotRemoved(e) == e.from \notin removed_ids
    IN  IF idx = 0 THEN Outcome(p, "")
        ELSE Outcome([p EXCEPT !.nodes = keep, !.edges = SelectSeq(@, NotRemoved)], "")

delete_nodes_after(p, node_id) ==
    LET idx == get_node_index(p, node_id)
        keep == SubSeq(p.nodes, 1, idx)
        removed_ids == {p.nodes[i].id : i \in (idx + 1)..Len(p.nodes)}
        NotRemoved(e) == e.from \notin removed_ids /\ e.to \notin removed_ids
    IN  IF idx = 0 THEN Outcome(p, "")
        ELSE Outcome([p EXCEPT !.nodes = keep, !.edges = SelectSeq(@, NotRemoved)], "")

\* A removal that forgets the edges arriving at the removed node.
remove_node_from_only(p, node_id) ==
    LET KeepNode(x) == x.id # node_id
        KeepEdge(e) == e.from # node_id
    IN  Outcome([p EXCEPT !.nodes = SelectSeq(@, KeepNode),
                          !.edges = SelectSeq(@, KeepEdge)], "")

remove_node(p, node_id) ==
    LET KeepNode(x) == x.id # node_id
        KeepEdge(e) == e.from # node_id /\ e.to # node_id
    IN  Outcome([p EXCEPT !.nodes = SelectSeq(@, KeepNode),
                          !.edges = SelectSeq(@, KeepEdge)], "")

\* An ensure_end_node that does not look for an end node first.
ensure_end_node_always_new(p, n) ==
    IF find_node(p, "end") # None THEN add_node(p, <<"Fim">>, "end", n)
    ELSE Outcome([p EXCEPT !.nodes = Append(@, Node("end", <<"Fim">>, "end"))], "end")

ensure_end_node(p, n) ==
    LET IsEnd(x) == x.type = "end"
        end_nodes == SelectSeq(p.nodes, IsEnd)
    IN  IF end_nodes # <<>> THEN Outcome(p, end_nodes[1].id)
        ELSE IF find_node(p, "end") # None THEN add_node(p, <<"Fim">>, "end", n)
        ELSE Outcome([p EXCEPT !.nodes = Append(@, Node("end", <<"Fim">>, "end"))], "end")

NodeLine(x) ==
    LET safe_label == ReplaceNewlines(x.label)
    IN  CASE x.type \in {"start", "end"} -> <<"    ", x.id, "([">> \o safe_label \o <<"])">>
          [] x.type = "task"             -> <<"    ", x.id, "[">> \o safe_label \o <<"]">>
          [] x.type = "decision"         -> <<"    ", x.id, "{">> \o safe_label \o <<"}">>
          [] OTHER                       -> <<"    ", x.id, "[">> \o safe_label \o <<"]">>

EdgeLine(e) ==
    IF e.label # None /\ e.label[1] # <<>>
    THEN <<"    ", e.from, " -->|">> \o e.label[1] \o <<"| ", e.to>>
    ELSE <<"    ", e.from, " --> ", e.to>>

generate_mermaid(p) ==
    Join(<<(<<"flowchart TD">>)>>
         \o [i \in 1..Len(p.nodes) |-> NodeLine(p.nodes[i])]
         \o [i \in 1..Len(p.edges) |-> EdgeLine(p.edges[i])])

\* The body of the "Adicionar decisão" button: five helper calls in a row.
add_decision(p, parent_id, dec_label, yes_label, no_label, n) ==
    LET d  == add_node(p, Strip(dec_label), "decision", n)
        e1 == add_edge(d.proc, parent_id, d.ret, None)
        y  == add_node(e1.proc, OrElse(Strip(yes_label), <<"Sim", Blank, "path">>), "task", n + 1)
        no == add_node(y.proc, OrElse(Strip(no_label), <<"Não", Blank, "path">>), "task", n + 2)
        e2 == add_edge(no.proc, d.ret, y.ret, Some(<<"Sim">>))
        e3 == add_edge(e2.proc, d.ret, no.ret, Some(<<"Não">>))
    IN  Drew(Outcome(e3.proc, d.ret), 3)

\* ------------------------------------------------------------------ inputs
\* An identifier that no node carries.
Ghost == "ghost"
IdInputs(p) == NodeIds(p) \cup {Ghost}

LabelInputs == {<<"A">>, <<"A", NL, "B">>}
KindInputs == {"task", "end"}
EdgeLabelInputs == {None, Some(<<"L", NL, "M">>)}

\* ------------------------------------------------------------------ state
CountEnds(p) == Cardinality({i \in 1..Len(p.nodes) : p.nodes[i].type = "end"})

\* The sizes of a process, taken before an operation acts on it.
Sizes(p) == [nodes |-> Len(p.nodes), edges |-> Len(p.edges), ends |-> CountEnds(p)]

\* What is seen of an operation: its name, its first argument (an id) and the
\* position of the option selected for it, what it returned and raised, the
\* message the handler showed, the text it produced, whether the same
\* operation ran just before, and the sizes before it ran.
Obs(op, arg, pos, o, before) ==
    [op |-> op, arg |-> arg, pos |-> pos, ret |-> o.ret, raised |-> o.raised,
     msg |-> o.msg, text |-> <<>>, rep |-> FALSE, before |-> before]

Init ==
    /\ process = init_process
    /\ uuid = 0
    /\ steps = 0
    /\ last_added_node = None
    /\ editing_node = None
    /\ last = Obs("init_process", "", 0, Outcome(init_process, ""), Sizes(init_process))

\* --------------------------------------------- the helpers called directly
\* One more operation, of at most `most`.
Step(o, most) ==
    /\ steps < most
    /\ steps' = steps + 1
    /\ uuid' = uuid + o.drawn

Apply(op, arg, o) ==
    /\ Step(o, MaxCalls)
    /\ process' = o.proc
    /\ last' = Obs(op, arg, 0, o, Sizes(process))
    /\ UNCHANGED <<last_added_node, editing_node>>

AddNode ==
    \E label \in LabelInputs, ntype \in KindInputs :
        Apply("add_node", "", add_node(process, label, ntype, uuid))

AddEdge ==
    \E from_id \in IdInputs(process), to_id \in IdInputs(process),
       label \in EdgeLabelInputs :
       Apply("add_edge", from_id, add_edge(process, from_id, to_id, label))

UpdateNodeLabel ==
    \E node_id \in IdInputs(process), new_label \in LabelInputs :
        Apply("update_node_label", node_id, update_node_label(process, node_id, new_label))

DeleteNodesAfter ==
    \E node_id \in IdInputs(process) :
        Apply("delete_nodes_after", node_id, delete_nodes_after(process, node_id))

RemoveNode ==
    \E node_id \in IdInputs(process) :
        Apply("remove_node", node_id, remove_node(process, node_id))

EnsureEndNode ==
    LET o == ensure_end_node(process, uuid)
        again == last.op = "ensure_end_node"
    IN  /\ Step(o, MaxCalls)
        /\ process' = o.proc
        /\ last' = [Obs("ensure_end_node", "", 0, o,
                        IF again THEN last.before ELSE Sizes(process))
                    EXCEPT !.rep = again]
        /\ UNCHANGED <<last_added_node, editing_node>>

AddDecision ==
    \E parent_id \in IdInputs(process) :
        Apply("add_decision", parent_id,
              add_decision(process, parent_id, <<"D">>, <<"Y">>, <<>>, uuid))

GenerateMermaid ==
    /\ Step(Outcome(process, ""), MaxCalls)
    /\ last' = [Obs("generate_mermaid", "", 0, Outcome(process, ""), Sizes(process))
                EXCEPT !.text = generate_mermaid(process)]
    /\ UNCHANGED <<process, last_added_node, editing_node>>

Next ==
    \/ AddNode
    \/ AddEdge
    \/ UpdateNodeLabel
    \/ DeleteNodesAfter
    \/ RemoveNode
    \/ EnsureEndNode
    \/ AddDecision
    \/ GenerateMermaid

\* Any sequence of helper calls on a process made by init_process.
Spec == Init /\ [][Next]_vars

\* ------------------------------------------------------ the Streamlit handlers
Shown(o, msg) == [o EXCEPT !.msg = msg]

\* Python's `key in content`
Contains(key, content) ==
    CASE content.tag = "dict" -> key \in content.keys
      [] content.tag = "list" -> \E i \in 1..Len(content.items) : content.items[i] = key
      [] OTHER -> FALSE

\* `key in content` raises TypeError on a number.
ContainsRaises(content) == content.tag = "num"

\* The script reaches its widgets: process.get(...) and process["nodes"] work.
Runs(p) == p.tag = "dict" /\ {"nodes", "edges"} \subseteq p.keys

\* "Adicionar tarefa", with the option at position parent_pos selected
add_task_button(p, parent_pos, task_label, n) ==
    IF Strip(task_label) = <<>> THEN Shown(Outcome(p, ""), "warning")
    ELSE LET parent_id == p.nodes[parent_pos].id
             a == add_node(p, Strip(task_label), "task", n)
             e == add_edge(a.proc, parent_id, a.ret, None)
         IN  Shown(Drew(Outcome(e.proc, a.ret), a.drawn), "success")

\* "Adicionar decisão"
add_decision_button(p, parent_pos, dec_label, yes_label, no_label, n) ==
    IF Strip(dec_label) = <<>> THEN Shown(Outcome(p, ""), "warning")
    ELSE Shown(add_decision(p, p.nodes[parent_pos].id, dec_label, yes_label, no_label, n),
               "success")

\* "Adicionar Fim"
add_end_button(p, parent_pos, n) ==
    LET parent_id == p.nodes[parent_pos].id
        x == ensure_end_node(p, n)
        e == add_edge(x.proc, parent_id, x.ret, None)
    IN  Shown(Drew(Outcome(e.proc, x.ret), x.drawn), "success")

\* A "Salvar edição" that does not check that the step is the last one.
save_edit_button_unchecked(p, sel_pos, new_label) ==
    LET sel_id == p.nodes[sel_pos].id
        u == update_node_label(p, sel_id,
                 OrElse(Strip(new_label), find_node(p, sel_id)[1].label))
    IN  Shown(Outcome(u.proc, sel_id), "success")

\* "Salvar edição"
save_edit_button(p, sel_pos, new_label) ==
    LET sel_id == p.nodes[sel_pos].id
        sel_idx == get_node_index(p, sel_id)
    IN  IF sel_idx # Len(p.nodes) THEN Shown(Outcome(p, sel_id), "error")
        ELSE LET u == update_node_label(p, sel_id,
                          OrElse(Strip(new_label), find_node(p, sel_id)[1].label))
             IN  Shown(Outcome(u.proc, sel_id), "success")

\* "Deletar posteriores"
delete_later_button(p, sel_pos) ==
    LET sel_id == p.nodes[sel_pos].id
        sel_idx == get_node_index(p, sel_id)
    IN  IF sel_idx = Len(p.nodes) THEN Shown(Outcome(p, sel_id), "info")
        ELSE Shown(Outcome(delete_nodes_after(p, sel_id).proc, sel_id), "success")

\* "Deletar i"
delete_node_button(p, i) ==
    IF p.nodes[i].type = "start" THEN Shown(Outcome(p, p.nodes[i].id), "error")
    ELSE Shown(Outcome(remove_node(p, p.nodes[i].id).proc, p.nodes[i].id), "success")

\* "Editar i": warns, or notes the node in _editing_node
edit_node_button(p, i) ==
    IF i # Len(p.nodes) THEN Shown(Outcome(p, p.nodes[i].id), "warning")
    ELSE Shown(Outcome(p, p.nodes[i].id), "editing")

\* "Carregar processo (JSON)", with the parsed upload `content`
load_upload(p, content) ==
    IF ContainsRaises(content) THEN Shown(Outcome(p, ""), "error")
    ELSE IF Contains("nodes", content) /\ Contains("edges", content)
         THEN Shown(Outcome(content, ""), "success")
         ELSE Shown(Outcome(p, ""), "error")

\* What the user can type into a text input.
TextInputs == {<<Blank>>, <<Blank, "T">>}

\* Uploads: a mapping without "edges", a list, a number, a mapping whose only
\* node is a task with the id "end" and whose edge dangles, and a mapping
\* with two nodes of one id.
DocInputs ==
    { JDict({"name", "nodes"}, <<Node("start", <<"S">>, "start")>>, <<>>),
      JList(<<"nodes", "edges">>),
      JNum,
      JDict(ProcessKeys, <<Node("end", <<"E">>, "task")>>, <<Edge("end", "gone", None)>>),
      JDict(ProcessKeys,
            <<Node("start", <<"S">>, "start"), Node("x", <<"E">>, "task"),
              Node("x", <<"F">>, "task")>>,
            <<>>) }

Handle(op, pos, o) ==
    /\ Step(o, MaxSteps)
    /\ process' = o.proc
    /\ last' = Obs(op, process.nodes[pos].id, pos, o, Sizes(process))

AddTaskButton ==
    /\ Runs(process)
    /\ \E parent_pos \in 1..Len(process.nodes), task_label \in TextInputs :
          LET o == add_task_button(process, parent_pos, task_label, uuid)
          IN  /\ Handle("add_task", parent_pos, o)
              /\ last_added_node' = IF o.msg = "success" THEN Some(o.ret)
                                    ELSE last_added_node
              /\ UNCHANGED editing_node

AddDecisionButton ==
    /\ Runs(process)
    /\ \E parent_pos \in 1..Len(process.nodes), dec_label \in TextInputs :
          LET o == add_decision_button(process, parent_pos, dec_label, <<"Y">>, <<>>, uuid)
          IN  /\ Handle("add_decision", parent_pos, o)
              /\ last_added_node' = IF o.msg = "success" THEN Some(o.ret)
                                    ELSE last_added_node
              /\ UNCHANGED editing_node

AddEndButton ==
    /\ Runs(process)
    /\ \E parent_pos \in 1..Len(process.nodes) :
          /\ Handle("add_end", parent_pos, add_end_button(process, parent_pos, uuid))
          /\ UNCHANGED <<last_added_node, editing_node>>

SaveEditButton ==
    /\ Runs(process)
    /\ \E sel_pos \in 1..Len(process.nodes), new_label \in TextInputs :
          /\ Handle("save_edit", sel_pos, save_edit_button(process, sel_pos, new_label))
          /\ UNCHANGED <<last_added_node, editing_node>>

DeleteLaterButton ==
    /\ Runs(process)
    /\ \E sel_pos \in 1..Len(process.nodes) :
          LET o == delete_later_button(process, sel_pos)
          IN  /\ Handle("delete_later", sel_pos, o)
              /\ last_added_node' = IF o.msg = "success" THEN Some(o.ret)
                                    ELSE last_added_node
              /\ UNCHANGED editing_node

DeleteNodeButton ==
    /\ Runs(process)
    /\ \E i \in 1..Len(process.nodes) :
          /\ Handle("delete_node", i, delete_node_button(process, i))
          /\ UNCHANGED <<last_added_node, editing_node>>

EditNodeButton ==
    /\ Runs(process)
    /\ \E i \in 1..Len(process.nodes) :
          LET o == edit_node_button(process, i)
          IN  /\ Handle("edit_node", i, o)
              /\ editing_node' = IF o.msg = "editing" THEN Some(o.ret) ELSE editing_node
              /\ UNCHANGED last_added_node

ResetButton ==
    /\ Runs(process)
    /\ Step(Outcome(init_process, ""), MaxSteps)
    /\ process' = init_process
    /\ last_added_node' = None
    /\ last' = Obs("reset", "", 0, Outcome(init_process, ""), Sizes(process))
    /\ UNCHANGED editing_node

LoadUpload ==
    /\ Runs(process)
    /\ \E content \in DocInputs :
          /\ Step(load_upload(process, content), MaxSteps)
          /\ process' = load_upload(process, content).proc
          /\ last' = Obs("load", "", 0, load_upload(process, content), Sizes(process))
          /\ UNCHANGED <<last_added_node, editing_node>>

CtlNext ==
    \/ AddTaskButton
    \/ AddDecisionButton
    \/ AddEndButton
    \/ SaveEditButton
    \/ DeleteLaterButton
    \/ DeleteNodeButton
    \/ EditNodeButton
    \/ ResetButton

\* Any sequence of button presses, without uploads.
CtlSpec == Init /\ [][CtlNext]_vars

AppNext ==
    \/ CtlNext
    \/ LoadUpload

\* Any sequence of button presses and uploads.
AppSpec == Init /\ [][AppNext]_vars

\* ------------------------------------------------------------------ claims
Max(a, b) == IF a >= b THEN a ELSE b

\* The step is a call of the helper `op`.
Called(op) == last'.op = op

IsStart(x) == x.id = "start" /\ x.type = "start"

\* C1: in every state reached from init_process by the mutation helpers the
\* node list is not empty and holds a node with id "start" whose type is
\* start.
C1_StartNodePresent ==
    /\ process.nodes # <<>>
    /\ \E i \in 1..Len(process.nodes) : IsStart(process.nodes[i])

\* C2: remove_node called with the id of the start node raises
\* InvariantViolation and leaves nodes and edges as they were.
C2_RemoveStartRejected ==
    [][(Called("remove_node") /\ last'.arg = "start")
        => (last'.raised = "InvariantViolation" /\ process' = process)]_vars

\* C3: add_edge either raises ReferenceError and appends nothing, or appends
\* one edge whose from and to are ids of nodes present when it returns.
C3_AddEdgeChecksEndpoints ==
    [][Called("add_edge")
        => \/ last'.raised = "ReferenceError" /\ process' = process
           \/ /\ last'.raised = "none"
              /\ process'.nodes = process.nodes
              /\ Len(process'.edges) = Len(process.edges) + 1
              /\ SubSeq(process'.edges, 1, Len(process.edges)) = process.edges
              /\ LET e == process'.edges[Len(process'.edges)]
                 IN  e.from \in NodeIds(process') /\ e.to \in NodeIds(process')]_vars

\* The edges of p that touch none of the nodes of p after position k, in order.
EdgesClearOf(p, k) ==
    LET Clear(e) == \A i \in (k + 1)..Len(p.nodes) :
                        e.from # p.nodes[i].id /\ e.to # p.nodes[i].id
    IN  SelectSeq(p.edges, Clear)

\* C4: delete_nodes_after on the id of the node at position k leaves exactly
\* the nodes at positions 1..k, unchanged and in order, and exactly the edges
\* that touch no removed node; on the last node it changes nothing.
C4_TruncateExact ==
    [][Called("delete_nodes_after")
        => \A k \in 1..Len(process.nodes) :
              process.nodes[k].id = last'.arg
              => /\ process'.nodes = SubSeq(process.nodes, 1, k)
                 /\ process'.edges = EdgesClearOf(process, k)
                 /\ k = Len(process.nodes) => process' = process]_vars

\* C4 witness: a truncation that removed nodes and edges and kept an edge.
C4_Witness ==
    /\ last.op = "delete_nodes_after"
    /\ last.arg \in NodeIds(process)
    /\ Len(process.nodes) < last.before.nodes
    /\ Len(process.edges) < last.before.edges
    /\ Len(process.edges) > 0

C7_EnsureEndIdempotent ==
    [][(Called("ensure_end_node") /\ last'.rep)
        => /\ last'.ret = last.ret
           /\ process' = process
           /\ CountEnds(process') <= Max(1, last'.before.ends)]_vars

\* C7 witness: a second call, after a first call that had to create the end node.
C7_Witness ==
    /\ last.op = "ensure_end_node"
    /\ last.rep
    /\ last.before.ends = 0
    /\ CountEnds(process) = 1

\* The lines of a text: the runs of tokens between newlines.
RECURSIVE SplitLines(_)
SplitLines(text) ==
    IF \E i \in 1..Len(text) : text[i] = NL
    THEN LET i == CHOOSE i \in 1..Len(text) :
                     text[i] = NL /\ \A j \in 1..(i - 1) : text[j] # NL
         IN  <<SubSeq(text, 1, i - 1)>> \o SplitLines(SubSeq(text, i + 1, Len(text)))
    ELSE <<text>>

\* C8: the projection is the directive line, then one line per node in node
\* order, then one line per edge in edge order; no label adds a newline.
C8_OneLinePerNodeAndEdge ==
    last.op = "generate_mermaid"
    => LET lines == SplitLines(last.text)
           n == Len(process.nodes)
           m == Len(process.edges)
       IN  /\ Len(lines) = 1 + n + m
           /\ lines[1] = <<"flowchart TD">>
           /\ \A i \in 1..n : SubSeq(lines[1 + i], 1, 2) = <<"    ", process.nodes[i].id>>
           /\ \A i \in 1..m : SubSeq(lines[1 + n + i], 1, 2) = <<"    ", process.edges[i].from>>

\* A mapping that holds both a "nodes" key and an "edges" key.
IsProcessMapping(v) == v.tag = "dict" /\ {"nodes", "edges"} \subseteq v.keys

\* C6: an upload either is rejected with an error and leaves the current
\* process untouched, or replaces it by a mapping that holds both a nodes key
\* and an edges key.
C6_LoadIsAtomicSwap ==
    [][Called("load")
        => \/ last'.msg = "error" /\ process' = process
           \/ last'.msg = "success" /\ IsProcessMapping(process')]_vars

\* C9: without uploads, every edge's from and to are ids of nodes of the
\* node list; after "Deletar i" no edge has the removed id as from or to.
C9_EdgesResolve ==
    /\ \A i \in 1..Len(process.edges) :
          process.edges[i].from \in NodeIds(process) /\ process.edges[i].to \in NodeIds(process)
    /\ (last.op = "delete_node" /\ last.msg = "success")
       => \A i \in 1..Len(process.edges) :
             process.edges[i].from # last.arg /\ process.edges[i].to # last.arg

\* C9 witness: a node was deleted, edges went with it and an edge is left.
C9_Witness ==
    /\ last.op = "delete_node"
    /\ last.msg = "success"
    /\ Len(process.edges) < last.before.edges
    /\ Len(process.edges) > 0

\* The node at position i of q is the node at position i of p relabelled.
Relabelled(p, q, i) ==
    /\ q.nodes[i].label # p.nodes[i].label
    /\ q.nodes[i].id = p.nodes[i].id
    /\ q.nodes[i].type = p.nodes[i].type

\* C10: "Salvar edição" on a step that has later steps is rejected and
\* changes nothing; when it changes something, it changes the label of the
\* last step only; "Editar i" changes nothing; and no other button changes
\* the label of a node that stays in the list.
C10_EditOnlyLastStep ==
    [][/\ (Called("save_edit") /\ last'.pos < Len(process.nodes))
          => (last'.msg = "error" /\ process' = process)
       /\ (Called("save_edit") /\ process' # process)
          => /\ last'.pos = Len(process.nodes)
             /\ process'.edges = process.edges
             /\ Len(process'.nodes) = Len(process.nodes)
             /\ \A i \in 1..Len(process.nodes) :
                   process'.nodes[i] # process.nodes[i]
                   => i = Len(process.nodes) /\ Relabelled(process, process', i)
       /\ Called("edit_node") => process' = process
       /\ last'.op \notin {"save_edit", "reset", "load"}
          => \A i \in 1..Len(process.nodes), j \in 1..Len(process'.nodes) :
                process'.nodes[j].id = process.nodes[i].id
                => \E k \in 1..Len(process.nodes) :
                      /\ process.nodes[k].id = process.nodes[i].id
                      /\ process.nodes[k].label = process'.nodes[j].label]_vars

\* C10 witness: an edit of a step that has later steps was rejected.
C10_Witness ==
    /\ last.op = "save_edit"
    /\ last.msg = "error"
    /\ last.pos < Len(process.nodes)
    /\ Len(process.edges) > 0

====
